---- MODULE Spec2Model ----
(***************************************************************************)
(* Model of report/id.go: the node, edge and adjacency identifier          *)
(* constructors, their parsers, the IP extractors and the loopback         *)
(* scoping policy.                                                         *)
(*                                                                         *)
(* A Go string is modelled as a sequence of one-character strings, so that *)
(* splitting, prefix tests and slicing are computed character by           *)
(* character.  A net.IP is modelled as the 16-byte sequence net.ParseIP    *)
(* returns, and the nil IP as the empty sequence.                          *)
(***************************************************************************)
EXTENDS Integers, Sequences, FiniteSets, TLC

VARIABLES id, kind, args, fn, ret

vars == <<id, kind, args, fn, ret>>

(***************************************************************************)
(* Bounds of the input universes.                                          *)
(***************************************************************************)
\* longest raw (unconstructed) string handed to a parser
MaxLen == 3
\* longest hostID, pid or containerID
MaxPart == 1
\* longest address drawn from AddrAlphabet (sample literals are added)
MaxAddrLen == 3
\* longest port, and longest part of a pseudo node ID
MaxPort == 1
\* most parts of a pseudo node ID
MaxPseudoParts == 2
\* longest component of the node IDs joined into edges
MaxEdgePart == 1

(***************************************************************************)
(* Constants of the source.                                                *)
(***************************************************************************)
ScopeDelim == ";"

EdgeDelim == "|"

TheInternet == <<"t", "h", "e", "i", "n", "t", "e", "r", "n", "e", "t">>

\* the "<host>" suffix of MakeHostNodeID
HostMarker == <<"<", "h", "o", "s", "t", ">">>

\* the "pseudo" prefix of MakePseudoNodeID
PseudoPrefix == <<"p", "s", "e", "u", "d", "o">>

\* the ">" prefix of adjacency IDs
AdjacencyPrefix == <<">">>

\* the nil net.IP
Nil == <<>>

\* the outcome of a Go run-time panic (index or slice out of range, panic())
Panic == <<"panic">>

(***************************************************************************)
(* Go string primitives used by the source.                                *)
(***************************************************************************)
Drop(s, n) == SubSeq(s, n + 1, Len(s))

\* s[i] with Go's bounds check (0-based)
Index(fields, i) == IF i < Len(fields) THEN fields[i + 1] ELSE Panic

\* s[n:] with Go's bounds check
SliceFrom(s, n) == IF n <= Len(s) THEN Drop(s, n) ELSE Panic

\* strings.HasPrefix
HasPrefix(s, prefix) ==
    /\ Len(s) >= Len(prefix)
    /\ SubSeq(s, 1, Len(prefix)) = prefix

\* strings.Index for a one-character separator: 1-based position, 0 if absent
RECURSIVE IndexFrom(_, _, _)
IndexFrom(s, sep, i) ==
    IF i > Len(s) THEN 0
    ELSE IF s[i] = sep THEN i
    ELSE IndexFrom(s, sep, i + 1)

\* strings.SplitN(s, sep, n) for n > 0, and for n < 0 (no limit)
RECURSIVE SplitN(_, _, _)
SplitN(s, sep, n) ==
    LET at == IndexFrom(s, sep, 1)
    IN  IF n = 1 \/ at = 0 THEN <<s>>
        ELSE <<SubSeq(s, 1, at - 1)>> \o SplitN(Drop(s, at), sep, n - 1)

\* strings.Join
RECURSIVE Join(_, _)
Join(elems, sep) ==
    IF Len(elems) = 0 THEN <<>>
    ELSE IF Len(elems) = 1 THEN elems[1]
    ELSE elems[1] \o <<sep>> \o Join(Tail(elems), sep)

\* a return of the strings strs and the flag ok; a panic while evaluating one
\* of the strings is the outcome of the whole call
Returns(strs, ok) ==
    IF \E i \in 1..Len(strs) : strs[i] = Panic THEN Panic
    ELSE Append(strs, ok)

(***************************************************************************)
(* net.ParseIP and net.IP.IsLoopback of the Go standard library, as the    *)
(* source calls them.  An IP is its 16-byte form.                          *)
(***************************************************************************)
IPv4len == 4

IPv6len == 16

\* the overflow threshold of the library's dtoi and xtoi
Big == 16777215

DecDigits == <<"0", "1", "2", "3", "4", "5", "6", "7", "8", "9">>

HexLower == DecDigits \o <<"a", "b", "c", "d", "e", "f">>

HexUpper == DecDigits \o <<"A", "B", "C", "D", "E", "F">>

IsDec(c) == \E i \in 1..Len(DecDigits) : DecDigits[i] = c

IsHex(c) == \E i \in 1..Len(HexLower) : HexLower[i] = c \/ HexUpper[i] = c

DigitVal(c) ==
    (CHOOSE i \in 1..Len(HexLower) : HexLower[i] = c \/ HexUpper[i] = c) - 1

\* number of leading decimal (base 10) or hexadecimal (base 16) digits of s
RECURSIVE DigitRun(_, _, _)
DigitRun(s, base, i) ==
    IF i <= Len(s) /\ (IF base = 10 THEN IsDec(s[i]) ELSE IsHex(s[i]))
    THEN DigitRun(s, base, i + 1)
    ELSE i - 1

\* value of the first c digits of s, saturating at Big as dtoi and xtoi do
RECURSIVE DigitsVal(_, _, _)
DigitsVal(s, base, c) ==
    IF c = 0 THEN 0
    ELSE LET n == DigitsVal(s, base, c - 1) * base + DigitVal(s[c])
         IN  IF n >= Big THEN Big ELSE n

Zeros(n) == [i \in 1..n |-> 0]

v4InV6Prefix == Zeros(10) \o <<255, 255>>

IPv6loopback == Zeros(15) \o <<1>>

\* net.parseIPv4: the loop over the four octets; p holds the octets read.
\* An octet with a leading zero is rejected, as the library does since Go
\* 1.17; no address of the input universe has one.
RECURSIVE parseIPv4Loop(_, _, _)
parseIPv4Loop(s, i, p) ==
    IF i = IPv4len THEN (IF Len(s) # 0 THEN Nil ELSE v4InV6Prefix \o p)
    ELSE IF Len(s) = 0 THEN Nil
    ELSE IF i > 0 /\ s[1] # "." THEN Nil
    ELSE LET t == IF i > 0 THEN Tail(s) ELSE s
             c == DigitRun(t, 10, 1)
             n == DigitsVal(t, 10, c)
         IN  IF c = 0 \/ n >= Big \/ n > 255 THEN Nil
             ELSE IF c > 1 /\ t[1] = "0" THEN Nil
             ELSE parseIPv4Loop(Drop(t, c), i + 1, Append(p, n))

parseIPv4(s) == parseIPv4Loop(s, 0, <<>>)

\* net.parseIPv6: the code after the loop; ip holds the bytes read
parseIPv6Finish(s, ip, ellipsis) ==
    IF Len(s) # 0 THEN Nil
    ELSE IF Len(ip) < IPv6len
    THEN IF ellipsis < 0 THEN Nil
         ELSE SubSeq(ip, 1, ellipsis) \o Zeros(IPv6len - Len(ip))
                  \o SubSeq(ip, ellipsis + 1, Len(ip))
    ELSE IF ellipsis >= 0 THEN Nil
    ELSE ip

\* net.parseIPv6: the loop over the 16-bit groups
RECURSIVE parseIPv6Loop(_, _, _)
parseIPv6Loop(s, ip, ellipsis) ==
    IF Len(ip) >= IPv6len THEN parseIPv6Finish(s, ip, ellipsis)
    ELSE
    LET i == Len(ip)
        c == DigitRun(s, 16, 1)
        n == DigitsVal(s, 16, c)
    IN  IF c = 0 \/ n >= Big \/ n > 65535 THEN Nil
        ELSE IF c < Len(s) /\ s[c + 1] = "."
        THEN IF ellipsis < 0 /\ i # IPv6len - IPv4len THEN Nil
             ELSE IF i + IPv4len > IPv6len THEN Nil
             ELSE LET ip4 == parseIPv4(s)
                  IN  IF ip4 = Nil THEN Nil
                      ELSE parseIPv6Finish(<<>>, ip \o SubSeq(ip4, 13, 16), ellipsis)
        ELSE
        LET ip2 == ip \o <<n \div 256, n % 256>>
            s2 == Drop(s, c)
        IN  IF Len(s2) = 0 THEN parseIPv6Finish(s2, ip2, ellipsis)
            ELSE IF s2[1] # ":" \/ Len(s2) = 1 THEN Nil
            ELSE IF s2[2] = ":"
            THEN IF ellipsis >= 0 THEN Nil
                 ELSE IF Len(s2) = 2 THEN parseIPv6Finish(<<>>, ip2, Len(ip2))
                 ELSE parseIPv6Loop(Drop(s2, 2), ip2, Len(ip2))
            ELSE parseIPv6Loop(Tail(s2), ip2, ellipsis)

parseIPv6(s) ==
    IF Len(s) >= 2 /\ s[1] = ":" /\ s[2] = ":"
    THEN IF Len(s) = 2 THEN Zeros(IPv6len)
         ELSE parseIPv6Loop(Drop(s, 2), <<>>, 0)
    ELSE parseIPv6Loop(s, <<>>, -1)

\* net.ParseIP: the first "." or ":" selects the IPv4 or the IPv6 parser
RECURSIVE ParseIPFrom(_, _)
ParseIPFrom(s, i) ==
    IF i > Len(s) THEN Nil
    ELSE IF s[i] = "." THEN parseIPv4(s)
    ELSE IF s[i] = ":" THEN parseIPv6(s)
    ELSE ParseIPFrom(s, i + 1)

ParseIP(s) == ParseIPFrom(s, 1)

\* net.IP.To4: the 4-byte form of an IPv4 or IPv4-mapped address, else nil
To4(ip) ==
    IF Len(ip) = IPv6len /\ SubSeq(ip, 1, 12) = v4InV6Prefix
    THEN SubSeq(ip, 13, 16)
    ELSE Nil

\* net.IP.IsLoopback
IsLoopback(ip) ==
    IF To4(ip) # Nil THEN To4(ip)[1] = 127 ELSE ip = IPv6loopback

(***************************************************************************)
(* report/id.go                                                            *)
(***************************************************************************)
MakeAdjacencyID(srcNodeID) == AdjacencyPrefix \o srcNodeID

\* mutant: every leading ">" is stripped
RECURSIVE ParseAdjacencyID_TrimLeft(_)
ParseAdjacencyID_TrimLeft(adjacencyID) ==
    IF ~HasPrefix(adjacencyID, AdjacencyPrefix) THEN <<<<>>, FALSE>>
    ELSE IF HasPrefix(Tail(adjacencyID), AdjacencyPrefix)
    THEN ParseAdjacencyID_TrimLeft(Tail(adjacencyID))
    ELSE <<Tail(adjacencyID), TRUE>>

ParseAdjacencyID(adjacencyID) ==
    IF ~HasPrefix(adjacencyID, AdjacencyPrefix) THEN <<<<>>, FALSE>>
    ELSE Returns(<<SliceFrom(adjacencyID, 1)>>, TRUE)

MakeEdgeID(srcNodeID, dstNodeID) == srcNodeID \o <<EdgeDelim>> \o dstNodeID

\* mutant: split on the scope delimiter
ParseEdgeID_ScopeDelim(edgeID) ==
    LET fields == SplitN(edgeID, ScopeDelim, 2)
    IN  IF Len(fields) # 2 THEN <<<<>>, <<>>, FALSE>>
        ELSE Returns(<<Index(fields, 0), Index(fields, 1)>>, TRUE)

\* mutant: the failure result carries the input
ParseEdgeID_KeepsInput(edgeID) ==
    LET fields == SplitN(edgeID, EdgeDelim, 2)
    IN  IF Len(fields) # 2 THEN <<Index(fields, 0), <<>>, FALSE>>
        ELSE Returns(<<Index(fields, 0), Index(fields, 1)>>, TRUE)

ParseEdgeID(edgeID) ==
    LET fields == SplitN(edgeID, EdgeDelim, 2)
    IN  IF Len(fields) # 2 THEN <<<<>>, <<>>, FALSE>>
        ELSE Returns(<<Index(fields, 0), Index(fields, 1)>>, TRUE)

\* mutant: only IPv4 loopback addresses count
isLoopback_IPv4Only(address) ==
    LET ip == ParseIP(address)
    IN  ip # Nil /\ To4(ip) # Nil /\ To4(ip)[1] = 127

isLoopback(address) ==
    LET ip == ParseIP(address)
    IN  ip # Nil /\ IsLoopback(ip)

\* mutant: every address is scoped by hostID
MakeAddressNodeID_AlwaysScoped(hostID, address) ==
    hostID \o <<ScopeDelim>> \o address

MakeAddressNodeID(hostID, address) ==
    LET scope == IF ~isLoopback(address) THEN <<>> ELSE hostID
    IN  scope \o <<ScopeDelim>> \o address

MakeEndpointNodeID(hostID, address, port) ==
    MakeAddressNodeID(hostID, address) \o <<ScopeDelim>> \o port

MakeProcessNodeID(hostID, pid) == hostID \o <<ScopeDelim>> \o pid

\* mutant: the probe's hostID used as the node ID, without the marker
MakeHostNodeID_BareHostID(hostID) == hostID

MakeHostNodeID(hostID) == hostID \o <<ScopeDelim>> \o HostMarker

MakeContainerNodeID(hostID, containerID) ==
    hostID \o <<ScopeDelim>> \o containerID

\* mutant: split without a limit, keeping the first two fields
ParseNodeID_SplitAll(nodeID) ==
    LET fields == SplitN(nodeID, ScopeDelim, -1)
    IN  IF Len(fields) < 2 THEN <<<<>>, <<>>, FALSE>>
        ELSE Returns(<<Index(fields, 0), Index(fields, 1)>>, TRUE)

ParseNodeID(nodeID) ==
    LET fields == SplitN(nodeID, ScopeDelim, 2)
    IN  IF Len(fields) # 2 THEN <<<<>>, <<>>, FALSE>>
        ELSE Returns(<<Index(fields, 0), Index(fields, 1)>>, TRUE)

MakePseudoNodeID(parts) == Join(<<PseudoPrefix>> \o parts, ScopeDelim)

\* mutant: split without a limit
EndpointIDAddresser_SplitAll(nodeID) ==
    LET fields == SplitN(nodeID, ScopeDelim, -1)
    IN  IF Len(fields) # 3 THEN Nil
        ELSE IF Index(fields, 1) = Panic THEN Panic
        ELSE ParseIP(Index(fields, 1))

\* mutant: the hostID field is parsed
EndpointIDAddresser_HostField(nodeID) ==
    LET fields == SplitN(nodeID, ScopeDelim, 3)
    IN  IF Len(fields) # 3 THEN Nil
        ELSE IF Index(fields, 0) = Panic THEN Panic
        ELSE ParseIP(Index(fields, 0))

EndpointIDAddresser(nodeID) ==
    LET fields == SplitN(nodeID, ScopeDelim, 3)
    IN  IF Len(fields) # 3 THEN Nil
        ELSE IF Index(fields, 1) = Panic THEN Panic
        ELSE ParseIP(Index(fields, 1))

\* mutant: split without a limit, longer IDs accepted
AddressIDAddresser_SplitAll(nodeID) ==
    LET fields == SplitN(nodeID, ScopeDelim, -1)
    IN  IF Len(fields) < 2 THEN Nil
        ELSE IF Index(fields, 1) = Panic THEN Panic
        ELSE ParseIP(Index(fields, 1))

AddressIDAddresser(nodeID) ==
    LET fields == SplitN(nodeID, ScopeDelim, 2)
    IN  IF Len(fields) # 2 THEN Nil
        ELSE IF Index(fields, 1) = Panic THEN Panic
        ELSE ParseIP(Index(fields, 1))

PanicIDAddresser(nodeID) == Panic

(***************************************************************************)
(* Input universes.                                                        *)
(***************************************************************************)
RECURSIVE StringsOfLen(_, _)
StringsOfLen(alphabet, n) ==
    IF n = 0 THEN {<<>>}
    ELSE {Append(s, c) : s \in StringsOfLen(alphabet, n - 1), c \in alphabet}

StringsUpTo(alphabet, n) == UNION {StringsOfLen(alphabet, k) : k \in 0..n}

RECURSIVE SeqsOfLen(_, _)
SeqsOfLen(S, n) ==
    IF n = 0 THEN {<<>>}
    ELSE {Append(q, x) : q \in SeqsOfLen(S, n - 1), x \in S}

\* both delimiters, the adjacency prefix, an IP separator, a digit, a letter
Alphabet == {";", "|", ">", ":", "1", "h"}

PartAlphabet == {";", "|", ">", "h"}

AddrAlphabet == {":", "1", ";"}

PortAlphabet == {"8", ";"}

EdgeAlphabet == {"1", "|"}

Lo4 == <<"1", "2", "7", ".", "0", ".", "0", ".", "1">>

Lo4Other == <<"1", "2", "7", ".", "8", ".", "8", ".", "8">>

Lo6 == <<":", ":", "1">>

Lo4Mapped == <<":", ":", "f", "f", "f", "f", ":">> \o Lo4

Dns4 == <<"8", ".", "8", ".", "8", ".", "8">>

Private4 == <<"1", "0", ".", "0", ".", "0", ".", "1">>

Any6 == <<":", ":">>

NotAnIP == <<"1", "2", "7", ".", "0", ".", "0">>

LoopbackSamples == {Lo4, Lo4Other, Lo6, Lo4Mapped}

NonLoopbackSamples == {Dns4, Private4, Any6, NotAnIP, TheInternet, <<>>}

\* raw strings handed to the parsers as they are
Strings == StringsUpTo(Alphabet, MaxLen)

\* hostIDs, pids and containerIDs
Parts == StringsUpTo(PartAlphabet, MaxPart)

Addresses ==
    StringsUpTo(AddrAlphabet, MaxAddrLen) \cup Parts
        \cup LoopbackSamples \cup NonLoopbackSamples

Ports == StringsUpTo(PortAlphabet, MaxPort)

PseudoParts == UNION {SeqsOfLen(Ports, k) : k \in 0..MaxPseudoParts}

NoScopeDelim(s) == \A i \in 1..Len(s) : s[i] # ScopeDelim

NoEdgeDelim(s) == \A i \in 1..Len(s) : s[i] # EdgeDelim

DelimFree(s) == NoScopeDelim(s) /\ NoEdgeDelim(s)

Clean(S) == {s \in S : DelimFree(s)}

\* the node IDs the constructors make of the given components
NodeIDsOf(hosts, parts, addresses, ports, pseudos) ==
    {MakeProcessNodeID(h, p) : h \in hosts, p \in parts}
        \cup {MakeContainerNodeID(h, p) : h \in hosts, p \in parts}
        \cup {MakeHostNodeID(h) : h \in hosts}
        \cup {MakeAddressNodeID(h, a) : h \in hosts, a \in addresses}
        \cup {MakeEndpointNodeID(h, a, p) : h \in hosts, a \in addresses, p \in ports}
        \cup {MakePseudoNodeID(ps) : ps \in pseudos}

EdgeParts == StringsUpTo(EdgeAlphabet, MaxEdgePart)

EdgePseudos == {<<>>} \cup {<<p>> : p \in EdgeParts}

\* the node IDs joined into edges
EdgeNodeIDs ==
    NodeIDsOf(EdgeParts, EdgeParts, EdgeParts \cup {Lo6}, EdgeParts, EdgePseudos)

\* those made of components that contain neither delimiter
CleanEdgeNodeIDs ==
    NodeIDsOf(Clean(EdgeParts), Clean(EdgeParts), Clean(EdgeParts) \cup {Lo6},
              Clean(EdgeParts), {ps \in EdgePseudos : \A i \in 1..Len(ps) : DelimFree(ps[i])})

NodeKinds == {"process", "container", "host", "address", "endpoint"}

(***************************************************************************)
(* The state.  kind and args are the inputs of one use of the package: the *)
(* constructor to call and its arguments (kind "raw": no constructor, id   *)
(* is a string handed to the parsers as it is).  id is the ID once it is   *)
(* made, fn the function last applied ("none" before the constructor ran,  *)
(* "make" after it, then the parser or extractor applied to id), and ret   *)
(* what the parser or extractor returned.                                  *)
(***************************************************************************)
Inputs ==
    ({"process", "container"} \X {<<h, p>> : h \in Parts, p \in Parts})
        \cup ({"host"} \X {<<h>> : h \in Parts})
        \cup ({"address"} \X {<<h, a>> : h \in Parts, a \in Addresses})
        \cup ({"endpoint"} \X {<<h, a, p>> : h \in Parts, a \in Addresses, p \in Ports})
        \cup ({"pseudo"} \X PseudoParts)
        \cup ({"edge"} \X {<<src, dst>> : src \in EdgeNodeIDs, dst \in EdgeNodeIDs})

Init ==
    /\ fn = "none"
    /\ ret = <<>>
    /\ \/ /\ kind = "raw"
          /\ args = <<>>
          /\ id \in Strings
       \/ /\ \E input \in Inputs :
                 /\ kind = input[1]
                 /\ args = input[2]
          /\ id = <<>>

\* the constructor returns s
Made(s) ==
    /\ fn = "none"
    /\ id' = s
    /\ fn' = "make"
    /\ UNCHANGED <<kind, args, ret>>

\* id is a string a parser can be handed
Ready == kind = "raw" \/ fn # "none"

\* the parser or extractor f, applied to id, returns r
Applied(f, r) ==
    /\ fn' = f
    /\ ret' = r
    /\ UNCHANGED <<id, kind, args>>

DoMakeProcessNodeID ==
    /\ kind = "process"
    /\ Made(MakeProcessNodeID(args[1], args[2]))

DoMakeContainerNodeID ==
    /\ kind = "container"
    /\ Made(MakeContainerNodeID(args[1], args[2]))

DoMakeHostNodeID ==
    /\ kind = "host"
    /\ Made(MakeHostNodeID(args[1]))

DoMakeAddressNodeID ==
    /\ kind = "address"
    /\ Made(MakeAddressNodeID(args[1], args[2]))

DoMakeEndpointNodeID ==
    /\ kind = "endpoint"
    /\ Made(MakeEndpointNodeID(args[1], args[2], args[3]))

DoMakePseudoNodeID ==
    /\ kind = "pseudo"
    /\ Made(MakePseudoNodeID(args))

DoMakeEdgeID ==
    /\ kind = "edge"
    /\ Made(MakeEdgeID(args[1], args[2]))

\* the adjacency ID of the current raw string or node ID; args keeps the
\* string marked and how it was made
DoMakeAdjacencyID ==
    /\ kind \in NodeKinds \cup {"raw", "pseudo"}
    /\ Ready
    /\ id' = MakeAdjacencyID(id)
    /\ kind' = "adjacency"
    /\ args' = <<id, kind, args>>
    /\ fn' = "make"
    /\ ret' = <<>>

DoParseNodeID ==
    /\ Ready
    /\ Applied("ParseNodeID", ParseNodeID(id))

DoParseEdgeID ==
    /\ Ready
    /\ Applied("ParseEdgeID", ParseEdgeID(id))

DoParseAdjacencyID ==
    /\ Ready
    /\ Applied("ParseAdjacencyID", ParseAdjacencyID(id))

DoEndpointIDAddresser ==
    /\ Ready
    /\ Applied("EndpointIDAddresser", EndpointIDAddresser(id))

DoAddressIDAddresser ==
    /\ Ready
    /\ Applied("AddressIDAddresser", AddressIDAddresser(id))

DoPanicIDAddresser ==
    /\ Ready
    /\ Applied("PanicIDAddresser", PanicIDAddresser(id))

Next ==
    \/ DoMakeProcessNodeID
    \/ DoMakeContainerNodeID
    \/ DoMakeHostNodeID
    \/ DoMakeAddressNodeID
    \/ DoMakeEndpointNodeID
    \/ DoMakePseudoNodeID
    \/ DoMakeEdgeID
    \/ DoMakeAdjacencyID
    \/ DoParseNodeID
    \/ DoParseEdgeID
    \/ DoParseAdjacencyID
    \/ DoEndpointIDAddresser
    \/ DoAddressIDAddresser
    \/ DoPanicIDAddresser

Spec == Init /\ [][Next]_vars

(***************************************************************************)
(* Vocabulary of the properties.                                           *)
(***************************************************************************)
\* the failure results of the parsers
Fail2 == <<<<>>, FALSE>>

Fail3 == <<<<>>, <<>>, FALSE>>

\* every component the current ID was constructed from is free of both
\* delimiters
CleanInput ==
    CASE kind \in NodeKinds \cup {"pseudo"} ->
             \A i \in 1..Len(args) : DelimFree(args[i])
      [] kind = "edge" ->
             args[1] \in CleanEdgeNodeIDs /\ args[2] \in CleanEdgeNodeIDs
      [] kind = "adjacency" ->
             /\ args[2] \in NodeKinds \cup {"pseudo"}
             /\ \A i \in 1..Len(args[3]) : DelimFree(args[3][i])
      [] OTHER -> FALSE

StartsWithMark(s) == Len(s) > 0 /\ s[1] = ">"

\* all scope-delimited fields of s
Fields(s) == SplitN(s, ScopeDelim, -1)

\* s is cut at its first scope delimiter into host and rest
CutAtFirstScopeDelim(s, host, rest) ==
    /\ host \o <<ScopeDelim>> \o rest = s
    /\ NoScopeDelim(host)

\* the IP values of two of the sample literals, written out
IPofPrivate4 == <<0, 0, 0, 0, 0, 0, 0, 0, 0, 0, 255, 255, 10, 0, 0, 1>>

IPofLo6 == <<0, 0, 0, 0, 0, 0, 0, 0, 0, 0, 0, 0, 0, 0, 0, 1>>

(***************************************************************************)
(* C1: for hostID h and part p (pid, containerID) without ";", empty ones  *)
(* included, ParseNodeID of MakeProcessNodeID(h, p) and of                 *)
(* MakeContainerNodeID(h, p) returns (h, p, true), and ParseNodeID of      *)
(* MakeHostNodeID(h) returns (h, "<host>", true).                          *)
(***************************************************************************)
C1_NodeRoundTrip ==
    fn = "ParseNodeID" =>
        /\ (/\ kind \in {"process", "container"}
            /\ NoScopeDelim(args[1])
            /\ NoScopeDelim(args[2]))
               => ret = <<args[1], args[2], TRUE>>
        /\ (kind = "host" /\ NoScopeDelim(args[1]))
               => ret = <<args[1], HostMarker, TRUE>>

C1_Witness ==
    /\ fn = "ParseNodeID"
    /\ kind = "host"
    /\ args = <<<<"h">>>>
    /\ ret = <<<<"h">>, HostMarker, TRUE>>

(***************************************************************************)
(* C2 as stated: for delimiter-free h and a, loopback or not,              *)
(* ParseNodeID(MakeAddressNodeID(h, a)) returns (h, a, true).              *)
(***************************************************************************)
C2_Original ==
    (/\ fn = "ParseNodeID"
     /\ kind = "address"
     /\ DelimFree(args[1])
     /\ DelimFree(args[2]))
        => ret = <<args[1], args[2], TRUE>>

(***************************************************************************)
(* C2 amended: for delimiter-free h and a,                                 *)
(* ParseNodeID(MakeAddressNodeID(h, a)) succeeds and returns the address   *)
(* a; the hostID it returns is h when a is a loopback IP literal and the   *)
(* empty string when a is not.                                             *)
(***************************************************************************)
C2_AddressRoundTrip ==
    (/\ fn = "ParseNodeID"
     /\ kind = "address"
     /\ DelimFree(args[1])
     /\ DelimFree(args[2]))
        => ret = <<IF isLoopback(args[2]) THEN args[1] ELSE <<>>, args[2], TRUE>>

C2_Witness ==
    /\ fn = "ParseNodeID"
    /\ kind = "address"
    /\ args = <<<<"h">>, Dns4>>
    /\ ret = <<<<>>, Dns4, TRUE>>

(***************************************************************************)
(* C3: for delimiter-free hostIDs h1 # h2 and any address a, the address   *)
(* node IDs of (h1, a) and (h2, a) are equal exactly when a is not a       *)
(* loopback IP literal; when a is one, the ID starts with h1 and the scope *)
(* delimiter.  The same for the endpoint node IDs with any port.  The      *)
(* loopback literals of both IP versions are scoped, and other addresses   *)
(* and strings that are no IP literal are not.                             *)
(***************************************************************************)
C3_LoopbackScoping ==
    (fn = "make" /\ kind \in {"address", "endpoint"} /\ DelimFree(args[1])) =>
        LET h1 == args[1]
            a == args[2]
            other(h2) == IF kind = "address" THEN MakeAddressNodeID(h2, a)
                         ELSE MakeEndpointNodeID(h2, a, args[3])
        IN  /\ \A h2 \in Clean(Parts) \ {h1} :
                    /\ (id = other(h2)) <=> ~isLoopback(a)
                    /\ isLoopback(a) => HasPrefix(id, h1 \o <<ScopeDelim>> \o a)
            /\ a \in LoopbackSamples => HasPrefix(id, h1 \o <<ScopeDelim>> \o a)
            /\ a \in NonLoopbackSamples => HasPrefix(id, <<ScopeDelim>> \o a)

C3_Witness ==
    /\ fn = "make"
    /\ kind = "endpoint"
    /\ args[1] = <<"h">>
    /\ args[2] = Lo4Mapped
    /\ id = <<"h", ScopeDelim>> \o Lo4Mapped \o <<ScopeDelim>> \o args[3]
    /\ id # MakeEndpointNodeID(<<>>, args[2], args[3])

(***************************************************************************)
(* C4: for node IDs a and b that the node-ID constructors make of          *)
(* components free of both delimiters, neither contains "|",               *)
(* ParseEdgeID(MakeEdgeID(a, b)) returns (a, b, true), and                 *)
(* MakeEdgeID(a, b) # MakeEdgeID(b, a) when a # b.                         *)
(***************************************************************************)
C4_EdgeRoundTrip ==
    (kind = "edge" /\ fn # "none" /\ CleanInput) =>
        /\ NoEdgeDelim(args[1]) /\ NoEdgeDelim(args[2])
        /\ fn = "ParseEdgeID" => ret = <<args[1], args[2], TRUE>>
        /\ args[1] # args[2] => id # MakeEdgeID(args[2], args[1])

C4_Witness ==
    /\ kind = "edge"
    /\ fn = "ParseEdgeID"
    /\ CleanInput
    /\ args[1] = <<"1", ScopeDelim>> \o Lo6
    /\ args[2] = <<ScopeDelim, "1", ScopeDelim, "1">>
    /\ ret = <<args[1], args[2], TRUE>>

(***************************************************************************)
(* C5: for every string x, ParseAdjacencyID(MakeAdjacencyID(x)) returns    *)
(* (x, true); for every string that does not start with ">",               *)
(* ParseAdjacencyID returns ("", false).                                   *)
(***************************************************************************)
C5_AdjacencyInversion ==
    fn = "ParseAdjacencyID" =>
        /\ kind = "adjacency" => ret = <<args[1], TRUE>>
        /\ ~StartsWithMark(id) => ret = Fail2

C5_Witness ==
    /\ fn = "ParseAdjacencyID"
    /\ kind = "adjacency"
    /\ StartsWithMark(args[1])
    /\ ret = <<args[1], TRUE>>

(***************************************************************************)
(* C6 as stated: on an ID constructed from delimiter-free components, a    *)
(* parser or extractor of another kind returns its failure result:         *)
(* ParseNodeID on an edge, pseudo or adjacency ID; ParseEdgeID and         *)
(* ParseAdjacencyID on a node ID; AddressIDAddresser on an endpoint node   *)
(* ID; EndpointIDAddresser on an address, process, container or host node  *)
(* ID.                                                                     *)
(***************************************************************************)
C6_Original ==
    CleanInput =>
        /\ (fn = "ParseNodeID" /\ kind \in {"edge", "pseudo", "adjacency"})
               => ret = Fail3
        /\ (fn = "ParseEdgeID" /\ kind \in NodeKinds) => ret = Fail3
        /\ (fn = "ParseAdjacencyID" /\ kind \in NodeKinds) => ret = Fail2
        /\ (fn = "AddressIDAddresser" /\ kind = "endpoint") => ret = Nil
        /\ (fn = "EndpointIDAddresser" /\ kind \in NodeKinds \ {"endpoint"})
               => ret = Nil

(***************************************************************************)
(* C6 amended: on an ID constructed from delimiter-free components no      *)
(* parser or extractor of another kind panics.  ParseEdgeID on a node ID,  *)
(* AddressIDAddresser on an endpoint node ID and EndpointIDAddresser on an *)
(* address, process, container or host node ID return the failure result.  *)
(* ParseAdjacencyID on a node ID returns the failure result unless the ID  *)
(* starts with ">" (its hostID does), and then it succeeds with the rest.  *)
(* ParseNodeID on an edge, pseudo or adjacency ID returns the failure      *)
(* result only when the ID contains no ";", and otherwise succeeds,        *)
(* cutting the ID at its first ";".                                        *)
(***************************************************************************)
C6_WrongKind ==
    CleanInput =>
        /\ (fn = "ParseNodeID" /\ kind \in {"edge", "pseudo", "adjacency"}) =>
               /\ ret # Panic
               /\ IF NoScopeDelim(id) THEN ret = Fail3
                  ELSE ret[3] /\ CutAtFirstScopeDelim(id, ret[1], ret[2])
        /\ (fn = "ParseEdgeID" /\ kind \in NodeKinds) => ret = Fail3
        /\ (fn = "ParseAdjacencyID" /\ kind \in NodeKinds) =>
               /\ ret # Panic
               /\ IF StartsWithMark(id) THEN ret = <<Tail(id), TRUE>>
                  ELSE ret = Fail2
        /\ (fn = "AddressIDAddresser" /\ kind = "endpoint") => ret = Nil
        /\ (fn = "EndpointIDAddresser" /\ kind \in NodeKinds \ {"endpoint"})
               => ret = Nil

C6_Witness ==
    /\ CleanInput
    /\ fn = "ParseNodeID"
    /\ kind = "edge"
    /\ args = <<<<"1", ScopeDelim, "1">>, <<ScopeDelim, "1">>>>
    /\ ret = <<<<"1">>, <<"1", EdgeDelim, ScopeDelim, "1">>, TRUE>>

(***************************************************************************)
(* C7 as stated: EndpointIDAddresser returns an IP exactly for the IDs of  *)
(* exactly 3 scope-delimited fields whose field 1 is a valid IP literal,   *)
(* and nil for every ID of fewer or more fields.                           *)
(***************************************************************************)
C7_Original ==
    fn = "EndpointIDAddresser" =>
        (ret # Nil <=>
            /\ Len(Fields(id)) = 3
            /\ ParseIP(Fields(id)[2]) # Nil)

(***************************************************************************)
(* C7 amended: EndpointIDAddresser returns an IP exactly for the IDs of at *)
(* least 3 scope-delimited fields whose field 1 is a valid IP literal, and *)
(* the IP is that of field 1; it returns nil for every ID of fewer than 3  *)
(* fields or whose field 1 is no valid IP literal.                         *)
(***************************************************************************)
C7_EndpointFields ==
    fn = "EndpointIDAddresser" =>
        IF Len(Fields(id)) >= 3 /\ ParseIP(Fields(id)[2]) # Nil
        THEN ret = ParseIP(Fields(id)[2])
        ELSE ret = Nil

C7_Witness ==
    /\ fn = "EndpointIDAddresser"
    /\ Len(Fields(id)) = 4
    /\ Fields(id)[2] = Lo6
    /\ ret = IPofLo6

(***************************************************************************)
(* C8: for delimiter-free h and p and a valid IP literal a,                *)
(* EndpointIDAddresser(MakeEndpointNodeID(h, a, p)) and                    *)
(* AddressIDAddresser(MakeAddressNodeID(h, a)) return the IP of a;         *)
(* AddressIDAddresser of a string without scope delimiter returns nil.     *)
(***************************************************************************)
C8_Extractors ==
    /\ (/\ fn = "EndpointIDAddresser"
        /\ kind = "endpoint"
        /\ DelimFree(args[1])
        /\ DelimFree(args[3])
        /\ ParseIP(args[2]) # Nil)
           => ret = ParseIP(args[2])
    /\ (/\ fn = "AddressIDAddresser"
        /\ kind = "address"
        /\ DelimFree(args[1])
        /\ ParseIP(args[2]) # Nil)
           => ret = ParseIP(args[2])
    /\ (fn = "AddressIDAddresser" /\ NoScopeDelim(id)) => ret = Nil

C8_Witness ==
    /\ fn = "EndpointIDAddresser"
    /\ kind = "endpoint"
    /\ args = <<<<"h">>, Private4, <<"8">>>>
    /\ ret = IPofPrivate4

(***************************************************************************)
(* C9: on a string without the delimiter it expects (the empty string      *)
(* included) ParseNodeID, ParseEdgeID and ParseAdjacencyID return ok =     *)
(* false with empty strings, and AddressIDAddresser and                    *)
(* EndpointIDAddresser return nil; none panics.                            *)
(***************************************************************************)
C9_MissingDelimiter ==
    /\ (fn = "ParseNodeID" /\ NoScopeDelim(id)) => ret = Fail3
    /\ (fn = "ParseEdgeID" /\ NoEdgeDelim(id)) => ret = Fail3
    /\ (fn = "ParseAdjacencyID" /\ ~StartsWithMark(id)) => ret = Fail2
    /\ (fn \in {"AddressIDAddresser", "EndpointIDAddresser"} /\ NoScopeDelim(id))
           => ret = Nil

C9_Witness ==
    /\ fn = "ParseEdgeID"
    /\ kind = "raw"
    /\ id = <<"h", ScopeDelim>>
    /\ ret = Fail3

(***************************************************************************)
(* C10: for every string s, a parser that succeeds lets s be rebuilt:      *)
(* ParseNodeID(s) = (h, r, true) implies h + ";" + r = s with no ";" in h; *)
(* ParseEdgeID(s) = (a, b, true) implies MakeEdgeID(a, b) = s with no "|"  *)
(* in a; ParseAdjacencyID(s) = (n, true) implies MakeAdjacencyID(n) = s.   *)
(***************************************************************************)
C10_Lossless ==
    /\ (fn = "ParseNodeID" /\ ret # Panic /\ ret[3]) =>
           CutAtFirstScopeDelim(id, ret[1], ret[2])
    /\ (fn = "ParseEdgeID" /\ ret # Panic /\ ret[3]) =>
           /\ MakeEdgeID(ret[1], ret[2]) = id
           /\ NoEdgeDelim(ret[1])
    /\ (fn = "ParseAdjacencyID" /\ ret # Panic /\ ret[2]) =>
           MakeAdjacencyID(ret[1]) = id

C10_Witness ==
    /\ fn = "ParseNodeID"
    /\ kind = "raw"
    /\ id = <<"h", ScopeDelim, ScopeDelim>>
    /\ ret = <<<<"h">>, <<ScopeDelim>>, TRUE>>

====
